---- MODULE Spec2Model ----
(***************************************************************************)
(* Model of the dynamic worker pool of src/src/pool.rs (WorkerPool, Job,   *)
(* the spawned worker tasks, the output consumer and the holders of the    *)
(* command channel).                                                       *)
(*                                                                         *)
(* usize values that the code subtracts are kept as small signed           *)
(* representatives of their value modulo 2^64: a negative representative r *)
(* stands for 2^64 + r.  Comparisons of such values go through ULt/UGt,    *)
(* which compare the unsigned values the representatives stand for.        *)
(***************************************************************************)
EXTENDS Integers, Sequences, FiniteSets, TLC

\* ------------------------------------------------------------------ bounds
MaxItems == 3          \* pushes before work()
MaxIters == 1          \* results a single job may produce
MaxTarget == 3         \* largest worker count given to new / SetWorkerCount
MaxCommands == 2       \* commands sent on the command channel
OutCap == 1            \* capacity of the caller's output channel

VARIABLES
    num_workers,        \* pool.rs:33  target number of workers
    cur_workers,        \* pool.rs:35  workers started and not yet reported finished
    outstanding_stops,  \* pool.rs:50  close signals sent and not yet acknowledged
    queue,              \* pool.rs:37  VecDeque<In>
    results_channel,    \* pool.rs:43  bounded channel worker -> pool
    close_channel,      \* pool.rs:45  bounded channel pool -> workers (unit messages)
    worker_events,      \* pool.rs:47  unbounded crossbeam channel
    command_events,     \* pool.rs:48  unbounded crossbeam channel
    chan_cap,           \* capacity given to channel(num_workers) in new
    output,             \* number of values buffered in the output channel
    pc,                 \* position of the task running work()
    held,               \* value taken by flush_output and not yet sent on
    workers,            \* the spawned worker tasks, in spawn order
    wrapped,            \* a usize subtraction has wrapped (see BalanceWorkers)
    pushed,             \* history: items given to push, in call order
    arrived,            \* history: values sent on the results channel
    delivered,          \* history: values sent on the output channel
    commands_sent,      \* history: number of commands sent on the command channel
    stop_sent,          \* history: a Stop was sent on the command channel
    stop_processed,     \* history: event_loop returned false on a Stop
    close_sent,         \* history: number of sends on the close channel
    zero_applied,       \* history: event_loop has applied a SetWorkerCount(0)
    same_applied,       \* history: event_loop has applied SetWorkerCount commands
                        \*          that all name the target the pool had reached
    aborted,            \* worker tasks whose job returned JobStatus::Running
    count_sent,         \* history: a SetWorkerCount was sent on the command channel
    config,             \* tcp.rs:17  the Config given to clobber
    now,                \* tcp.rs:75  Instant::now(), in ns since the run's start
    main,               \* tcp.rs:60  the thread running clobber
    slots               \* tcp.rs:96  the connection futures, by <<thread, slot>>

pool_vars == <<num_workers, cur_workers, outstanding_stops, queue,
               results_channel, close_channel, worker_events, command_events,
               chan_cap, output, pc, held, workers, wrapped, pushed, arrived,
               delivered, commands_sent, stop_sent, stop_processed, close_sent,
               zero_applied, same_applied, aborted, count_sent>>

tcp_vars == <<config, now, main, slots>>

vars == <<pool_vars, tcp_vars>>

\* ------------------------------------------------------------- data types
WorkerDone == "WorkerDone"
WorkerStopped == "WorkerStopped"

Stop == [cmd |-> "Stop", n |-> 0]
SetWorkerCount(n) == [cmd |-> "SetWorkerCount", n |-> n]
WorkerPoolCommand == {Stop} \cup {SetWorkerCount(n) : n \in 0..MaxTarget}

NoValue == <<>>

\* ------------------------------------------------------ usize arithmetic
\* a < b and a > b on the unsigned values the representatives stand for
ULt(a, b) == IF (a < 0) = (b < 0) THEN a < b ELSE b < 0
UGt(a, b) == ULt(b, a)

\* a faulty CurWorkers: the outstanding stops are not taken off
CurWorkersField(cur, stops) == cur

\* pool.rs:116  self.cur_workers - self.outstanding_stops (wrapping form)
CurWorkers(cur, stops) == cur - stops

\* the subtraction of pool.rs:117 overflows; a build with overflow checks panics
SubOverflows(cur, stops) == stops > cur

\* pool.rs:121
TargetWorkers(n) == n

\* pool.rs:132
Working(cur, stops) == UGt(CurWorkers(cur, stops), 0)

\* tcp.rs:18,20  Option<u32>, Option<Duration>
None == [some |-> FALSE, v |-> 0]

Some(x) == [some |-> TRUE, v |-> x]

\* tcp.rs:28  Config::new
ConfigNew ==
    [rate |-> None, duration |-> None, num_threads |-> 1,
     connect_timeout |-> 250, read_timeout |-> 250, connections |-> 10]

\* ------------------------------------------------------------------ Init
\* pool.rs:98  WorkerPool::new(task, output, num_workers); channel(0) panics,
\* so a constructed pool has num_workers >= 1
Init ==
    /\ num_workers \in 1..MaxTarget
    /\ chan_cap = num_workers
    /\ cur_workers = 0
    /\ outstanding_stops = 0
    /\ queue = <<>>
    /\ results_channel = <<>>
    /\ close_channel = 0
    /\ worker_events = <<>>
    /\ command_events = <<>>
    /\ output = 0
    /\ pc = "idle"
    /\ held = NoValue
    /\ workers = <<>>
    /\ wrapped = FALSE
    /\ pushed = <<>>
    /\ arrived = <<>>
    /\ delivered = <<>>
    /\ commands_sent = 0
    /\ stop_sent = FALSE
    /\ stop_processed = FALSE
    /\ close_sent = 0
    /\ zero_applied = FALSE
    /\ same_applied = FALSE
    /\ aborted = {}
    /\ count_sent = FALSE
    /\ config = ConfigNew
    /\ now = 0
    /\ main = [pc |-> "none", spawned |-> 0, wake |-> 0, cpus |-> 0,
               peer |-> "none"]
    /\ slots = <<>>

\* ------------------------------------------------- operations before work
\* an item is the input of one job: its identity and its iteration bound
\* (the (i, n) pair of tests::double, pool.rs:282)
Item(id, n) == [id |-> id, n |-> n]

\* pool.rs:143  push
Push(n) ==
    /\ pc = "idle"
    /\ Len(pushed) < MaxItems
    /\ queue' = Append(queue, Item(Len(pushed) + 1, n))
    /\ pushed' = Append(pushed, Item(Len(pushed) + 1, n))
    /\ UNCHANGED <<num_workers, cur_workers, outstanding_stops, results_channel,
                   close_channel, worker_events, command_events, chan_cap,
                   count_sent,
                   output, pc, held, workers, wrapped, arrived, delivered,
                   commands_sent, stop_sent, stop_processed, close_sent,
                   zero_applied, same_applied, aborted, config, now, main,
                   slots>>

\* pool.rs:156  a holder of command_channel() sends a command.  Commands sent
\* before work() is called are read by the first event_loop, as those sent
\* during the first flush_output are; commands sent after work() has returned
\* are never read.  Both are left out.
SendCommand(c) ==
    /\ pc \notin {"idle", "done", "panicked"}
    /\ commands_sent < MaxCommands
    /\ command_events' = Append(command_events, c)
    /\ commands_sent' = commands_sent + 1
    /\ stop_sent' = (stop_sent \/ c = Stop)
    /\ count_sent' = (count_sent \/ c # Stop)
    /\ UNCHANGED <<num_workers, cur_workers, outstanding_stops, queue,
                   results_channel, close_channel, worker_events, chan_cap,
                   output, pc, held, workers, wrapped, pushed, arrived,
                   delivered, stop_processed, close_sent, zero_applied,
                   same_applied, aborted, config, now, main, slots>>

\* pool.rs:160  work() is called and enters its loop
StartWork ==
    /\ pc = "idle"
    /\ pc' = "flush"
    /\ UNCHANGED <<num_workers, cur_workers, outstanding_stops, queue,
                   results_channel, close_channel, worker_events,
                   command_events, chan_cap,
                   count_sent, output, held, workers, wrapped,
                   pushed, arrived, delivered, commands_sent, stop_sent,
                   stop_processed, close_sent, zero_applied, same_applied,
                   aborted, config, now, main, slots>>

\* ------------------------------------------------------------ flush_output
\* a faulty TryRecvValue: the newest value is taken instead of the oldest
TryRecvNewest(ch) == ch[Len(ch)]

\* pool.rs:220  results_channel.1.try_recv(): the value received
TryRecvValue(ch) == Head(ch)

\* pool.rs:220  one evaluation of the while-let condition of flush_output
FlushOutput ==
    /\ pc = "flush"
    /\ IF results_channel = <<>>
       THEN /\ pc' = "event"
            /\ UNCHANGED <<held, results_channel>>
       ELSE /\ held' = <<TryRecvValue(results_channel)>>
            /\ results_channel' = Tail(results_channel)
            /\ pc' = "flush_send"
    /\ UNCHANGED <<num_workers, cur_workers, outstanding_stops, queue,
                   close_channel, worker_events, command_events, chan_cap,
                   count_sent,
                   output, workers, wrapped, pushed, arrived, delivered,
                   commands_sent, stop_sent, stop_processed, close_sent,
                   zero_applied, same_applied, aborted, config, now, main,
                   slots>>

\* pool.rs:221  self.output.send(out).await completes when the channel has room
FlushSend ==
    /\ pc = "flush_send"
    /\ output < OutCap
    /\ output' = output + 1
    /\ delivered' = Append(delivered, held[1])
    /\ held' = NoValue
    /\ pc' = "flush"
    /\ UNCHANGED <<num_workers, cur_workers, outstanding_stops, queue,
                   results_channel, close_channel, worker_events,
                   command_events, chan_cap,
                   count_sent, workers, wrapped, pushed, arrived,
                   commands_sent, stop_sent, stop_processed, close_sent,
                   zero_applied, same_applied, aborted, config, now, main,
                   slots>>

\* pool.rs:312  the consumer of the output channel receives one value; it is
\* a task of the same process and ends with it
ConsumerRecv ==
    /\ pc # "aborted"
    /\ output > 0
    /\ output' = output - 1
    /\ UNCHANGED <<num_workers, cur_workers, outstanding_stops, queue,
                   results_channel, close_channel, worker_events,
                   command_events, chan_cap,
                   count_sent, pc, held, workers, wrapped, pushed,
                   arrived, delivered, commands_sent, stop_sent, stop_processed,
                   close_sent, zero_applied, same_applied, aborted, config, now,
                   main, slots>>

\* -------------------------------------------------------------- event_loop
\* a faulty NormalizeCount: the count is taken as written
NormalizeCountRaw(n) == n

\* pool.rs:199  let n = match n { 0 => 1, n => n }
NormalizeCount(n) == IF n = 0 THEN 1 ELSE n

\* a faulty StopIndex: a Stop ends the command loop only as its first command
StopIndexHeadOnly(cmds) == IF cmds # <<>> /\ Head(cmds) = Stop THEN 1 ELSE 0

\* pool.rs:193-197  position of the command on which event_loop returns false
\* (0: the command loop drains the whole channel)
RECURSIVE StopIndex(_)
StopIndex(cmds) ==
    IF cmds = <<>> THEN 0
    ELSE IF Head(cmds).cmd = "Stop" THEN 1
    ELSE LET k == StopIndex(Tail(cmds)) IN IF k = 0 THEN 0 ELSE k + 1

\* pool.rs:198-206  num_workers after the SetWorkerCount commands of cmds
RECURSIVE ApplyCommands(_, _)
ApplyCommands(cmds, target) ==
    IF cmds = <<>> THEN target
    ELSE ApplyCommands(Tail(cmds), NormalizeCount(Head(cmds).n))

\* a faulty CountEvents: every drained event counts, whatever its kind
CountEventsAny(evs, kind) == Len(evs)

\* pool.rs:181-191  number of events of one kind drained from the channel
CountEvents(evs, kind) == Cardinality({i \in 1..Len(evs) : evs[i] = kind})

\* pool.rs:180  event_loop, and the break of work() when it returns false
EventLoop ==
    /\ pc = "event"
    /\ cur_workers' = cur_workers - Len(worker_events)
    /\ outstanding_stops' = outstanding_stops - CountEvents(worker_events, WorkerStopped)
    /\ worker_events' = <<>>
    /\ LET k == StopIndex(command_events)
           applied == IF k = 0 THEN command_events
                      ELSE SubSeq(command_events, 1, k - 1)
       IN /\ num_workers' = ApplyCommands(applied, num_workers)
          /\ zero_applied' = (zero_applied \/ \E i \in 1..Len(applied) : applied[i].n = 0)
          /\ same_applied' =
                 \/ same_applied
                 \/ /\ applied # <<>>
                    /\ CurWorkers(cur_workers', outstanding_stops') = num_workers
                    /\ \A i \in 1..Len(applied) :
                           NormalizeCount(applied[i].n) = num_workers
          /\ IF k = 0
             THEN /\ command_events' = <<>>
                  /\ pc' = "balance"
                  /\ UNCHANGED stop_processed
             ELSE /\ command_events' = SubSeq(command_events, k + 1, Len(command_events))
                  /\ pc' = "done"
                  /\ stop_processed' = TRUE
    /\ UNCHANGED <<queue, results_channel, close_channel, chan_cap,
                   count_sent, output,
                   held, workers, wrapped, pushed, arrived, delivered,
                   commands_sent, stop_sent, close_sent, aborted, config, now,
                   main, slots>>

\* --------------------------------------------------------- balance_workers
\* a faulty ShouldStart: a worker is also started at the target
ShouldStartAtTarget(eff, target) == ~UGt(eff, TargetWorkers(target))

\* pool.rs:265  cur_workers() < target_workers()
ShouldStart(eff, target) == ULt(eff, TargetWorkers(target))

\* a faulty ShouldStop: a worker is also told to stop at the target
ShouldStopAtTarget(eff, target) == ~ULt(eff, TargetWorkers(target))

\* pool.rs:267  cur_workers() > target_workers()
ShouldStop(eff, target) == UGt(eff, TargetWorkers(target))

\* a faulty PopFrontItem: the job gets the item at the back of the queue
PopBackItem(q) == q[Len(q)]

\* pool.rs:231  queue.pop_front(): the item taken
PopFrontItem(q) == Head(q)

\* pool.rs:231  queue.pop_front(): the queue left
PopFrontRest(q) == Tail(q)

\* a spawned worker task: the item of its job, the results its job has still
\* to produce, and whether the task has sent its WorkerEvent; history: the
\* number of close signals sent before it was started, and whether the signal
\* its stop_requested() received was one of those
Worker(item, sent) ==
    [item |-> item.id, left |-> item.n, running |-> TRUE, born |-> sent,
     stale |-> FALSE]

\* pool.rs:171  the test of working() that ends a tick of work()
AfterBalance(cur, stops) == IF Working(cur, stops) THEN "flush" ELSE "done"

\* pool.rs:117  the subtraction in cur_workers() overflows in a build with
\* overflow checks (the debug profile): the task running work() panics.
\* The build profile shows only at the first overflow, so it is chosen there:
\* either this action (checks on) or BalanceWorkers setting wrapped (checks
\* off); once a subtraction has wrapped the build is known to have no checks.
BalancePanics ==
    /\ pc = "balance"
    /\ ~wrapped
    /\ SubOverflows(cur_workers, outstanding_stops)
    /\ pc' = "panicked"
    /\ UNCHANGED <<num_workers, cur_workers, outstanding_stops, queue,
                   results_channel, close_channel, worker_events,
                   command_events, chan_cap,
                   count_sent, output, held, workers, wrapped,
                   pushed, arrived, delivered, commands_sent, stop_sent,
                   stop_processed, close_sent, zero_applied, same_applied,
                   aborted, config, now, main, slots>>

\* pool.rs:264  balance_workers (with start_worker, pool.rs:226, and the
\* increment of send_stop_work_message, pool.rs:258), then pool.rs:171
BalanceWorkers ==
    /\ pc = "balance"
    /\ wrapped' = (wrapped \/ SubOverflows(cur_workers, outstanding_stops))
    /\ LET eff == CurWorkers(cur_workers, outstanding_stops) IN
       IF ShouldStart(eff, num_workers)
       THEN IF queue = <<>>
            THEN /\ pc' = AfterBalance(cur_workers, outstanding_stops)
                 /\ UNCHANGED <<cur_workers, outstanding_stops, queue, workers>>
            ELSE /\ workers' = Append(workers, Worker(PopFrontItem(queue), close_sent))
                 /\ queue' = PopFrontRest(queue)
                 /\ cur_workers' = cur_workers + 1
                 /\ pc' = AfterBalance(cur_workers + 1, outstanding_stops)
                 /\ UNCHANGED outstanding_stops
       ELSE IF ShouldStop(eff, num_workers)
       THEN /\ outstanding_stops' = outstanding_stops + 1
            /\ pc' = "stop_send"
            /\ UNCHANGED <<cur_workers, queue, workers>>
       ELSE /\ pc' = AfterBalance(cur_workers, outstanding_stops)
            /\ UNCHANGED <<cur_workers, outstanding_stops, queue, workers>>
    /\ UNCHANGED <<num_workers, results_channel, close_channel, worker_events,
                   command_events, chan_cap,
                   count_sent, output, held, pushed, arrived,
                   delivered, commands_sent, stop_sent, stop_processed,
                   close_sent, zero_applied, same_applied, aborted, config, now,
                   main, slots>>

\* a faulty HasRoom: a send also completes on a channel that is full
HasRoomWhenFull(len, cap) == len <= cap

\* pool.rs:104-105  channel(num_workers): a send on the bounded channel
\* completes only while fewer than cap messages are queued
HasRoom(len, cap) == len < cap

\* pool.rs:259  close_channel.0.send(()).await completes when the channel has
\* room, then pool.rs:171
SendStopWorkMessage ==
    /\ pc = "stop_send"
    /\ HasRoom(close_channel, chan_cap)
    /\ close_channel' = close_channel + 1
    /\ close_sent' = close_sent + 1
    /\ pc' = AfterBalance(cur_workers, outstanding_stops)
    /\ UNCHANGED <<num_workers, cur_workers, outstanding_stops, queue,
                   results_channel, worker_events, command_events, chan_cap,
                   count_sent,
                   output, held, workers, wrapped, pushed, arrived, delivered,
                   commands_sent, stop_sent, stop_processed, zero_applied,
                   same_applied, aborted, config, now, main, slots>>

\* ----------------------------------------------------------- worker tasks
\* the value a job sends: which item it belongs to and which of its results
ResultValue(w) == <<w.item, w.left>>

\* pool.rs:293  job.results.send(i).await completes when the channel has room
WorkerSend(i) ==
    /\ i \in 1..Len(workers)
    /\ workers[i].running
    /\ workers[i].left > 0
    /\ HasRoom(Len(results_channel), chan_cap)
    /\ results_channel' = Append(results_channel, ResultValue(workers[i]))
    /\ arrived' = Append(arrived, ResultValue(workers[i]))
    /\ workers' = [workers EXCEPT ![i].left = @ - 1]
    /\ UNCHANGED <<num_workers, cur_workers, outstanding_stops, queue,
                   close_channel, worker_events, command_events, chan_cap,
                   count_sent,
                   output, pc, held, wrapped, pushed, delivered, commands_sent,
                   stop_sent, stop_processed, close_sent, zero_applied,
                   same_applied, aborted, config, now, main, slots>>

\* pool.rs:242-249  the job has exhausted its work and returns Done
WorkerReturnsDone(i) ==
    /\ i \in 1..Len(workers)
    /\ workers[i].running
    /\ workers[i].left = 0
    /\ workers' = [workers EXCEPT ![i].running = FALSE]
    /\ worker_events' = Append(worker_events, WorkerDone)
    /\ UNCHANGED <<num_workers, cur_workers, outstanding_stops, queue,
                   results_channel, close_channel, command_events, chan_cap,
                   count_sent,
                   output, pc, held, wrapped, pushed, arrived, delivered,
                   commands_sent, stop_sent, stop_processed, close_sent,
                   zero_applied, same_applied, aborted, config, now, main,
                   slots>>

\* pool.rs:79  close.try_recv(): the channel is first-in first-out, so of the
\* sent signals the one received is the oldest of the queued ones
OldestSignal(sent, queued) == sent - queued + 1

\* pool.rs:78-84, 242-249  stop_requested() receives a close signal and the
\* job returns Stopped
WorkerReturnsStopped(i) ==
    /\ i \in 1..Len(workers)
    /\ workers[i].running
    /\ close_channel > 0
    /\ close_channel' = close_channel - 1
    /\ workers' = [workers EXCEPT
           ![i].running = FALSE,
           ![i].stale = (OldestSignal(close_sent, close_channel) <= workers[i].born)]
    /\ worker_events' = Append(worker_events, WorkerStopped)
    /\ UNCHANGED <<num_workers, cur_workers, outstanding_stops, queue,
                   results_channel, command_events, chan_cap,
                   count_sent, output, pc, held,
                   wrapped, pushed, arrived, delivered, commands_sent,
                   stop_sent, stop_processed, close_sent, zero_applied,
                   same_applied, aborted, config, now, main, slots>>

\* a faulty WorkerReturnsRunning: the Running status is reported as WorkerDone
WorkerReturnsRunningAsDone(i) ==
    /\ i \in 1..Len(workers)
    /\ workers[i].running
    /\ workers' = [workers EXCEPT ![i].running = FALSE]
    /\ aborted' = aborted \cup {i}
    /\ worker_events' = Append(worker_events, WorkerDone)
    /\ UNCHANGED pc
    /\ UNCHANGED <<num_workers, cur_workers, outstanding_stops, queue,
                   results_channel, close_channel, command_events, chan_cap,
                   count_sent,
                   output, held, wrapped, pushed, arrived, delivered,
                   commands_sent, stop_sent, stop_processed, close_sent,
                   zero_applied, same_applied, config, now, main, slots>>

\* pool.rs:242-246  the job returns Running: the spawned task panics before
\* event_send.send is reached; the panic ends that task only
WorkerReturnsRunning(i) ==
    /\ i \in 1..Len(workers)
    /\ workers[i].running
    /\ workers' = [workers EXCEPT ![i].running = FALSE]
    /\ aborted' = aborted \cup {i}
    /\ UNCHANGED <<worker_events, pc>>
    /\ UNCHANGED <<num_workers, cur_workers, outstanding_stops, queue,
                   results_channel, close_channel, command_events, chan_cap,
                   count_sent,
                   output, held, wrapped, pushed, arrived, delivered,
                   commands_sent, stop_sent, stop_processed, close_sent,
                   zero_applied, same_applied, config, now, main, slots>>

\* pool.rs:242-246  the job returns Running and the executor turns the panic
\* of the task into an abort of the process: every task ends with it
WorkerRunningAborts(i) ==
    /\ i \in 1..Len(workers)
    /\ workers[i].running
    /\ workers' = [j \in 1..Len(workers) |-> [workers[j] EXCEPT !.running = FALSE]]
    /\ aborted' = aborted \cup {i}
    /\ pc' = "aborted"
    /\ UNCHANGED worker_events
    /\ UNCHANGED <<num_workers, cur_workers, outstanding_stops, queue,
                   results_channel, close_channel, command_events, chan_cap,
                   count_sent,
                   output, held, wrapped, pushed, arrived, delivered,
                   commands_sent, stop_sent, stop_processed, close_sent,
                   zero_applied, same_applied, config, now, main, slots>>

\* ------------------------------------------------------------ specification
Next ==
    \/ \E n \in 0..MaxIters : Push(n)
    \/ \E c \in WorkerPoolCommand : SendCommand(c)
    \/ StartWork
    \/ FlushOutput
    \/ FlushSend
    \/ ConsumerRecv
    \/ EventLoop
    \/ BalancePanics
    \/ BalanceWorkers
    \/ SendStopWorkMessage
    \/ \E i \in 1..MaxItems : WorkerSend(i)
    \/ \E i \in 1..MaxItems : WorkerReturnsDone(i)
    \/ \E i \in 1..MaxItems : WorkerReturnsStopped(i)

Spec == Init /\ [][Next]_vars

\* the pool with jobs that may also return JobStatus::Running
NextRunning ==
    \/ Next
    \/ \E i \in 1..MaxItems : WorkerReturnsRunning(i)
    \/ \E i \in 1..MaxItems : WorkerRunningAborts(i)

SpecRunning == Init /\ [][NextRunning]_vars

\* work() is called; the task running work() is driven by block_on
\* (pool.rs:161) and the spawned workers by the executor (pool.rs:241), so
\* each keeps taking its steps; a send on a bounded channel completes if the
\* channel has room again and again; every job ends (it produces its results
\* and returns Done) and the consumer of the output channel keeps receiving.
Fairness ==
    /\ WF_vars(StartWork)
    /\ WF_vars(FlushOutput)
    /\ SF_vars(FlushSend)
    /\ WF_vars(EventLoop)
    /\ WF_vars(BalancePanics \/ BalanceWorkers)
    /\ SF_vars(SendStopWorkMessage)
    /\ WF_vars(ConsumerRecv)
    /\ \A i \in 1..MaxItems : SF_vars(WorkerSend(i)) /\ WF_vars(WorkerReturnsDone(i))

FairSpec == Init /\ [][Next]_vars /\ Fairness

\* as Fairness, but with nothing assumed of the workers: a job may never
\* send, never poll stop_requested() and never return
PoolFairness ==
    /\ WF_vars(StartWork)
    /\ WF_vars(FlushOutput)
    /\ SF_vars(FlushSend)
    /\ WF_vars(EventLoop)
    /\ WF_vars(BalancePanics \/ BalanceWorkers)
    /\ SF_vars(SendStopWorkMessage)
    /\ WF_vars(ConsumerRecv)

FairSpecPool == Init /\ [][Next]_vars /\ PoolFairness

\* ---------------------------------------------------------------- helpers
IsPrefix(s, t) == Len(s) <= Len(t) /\ \A i \in 1..Len(s) : s[i] = t[i]

EffectiveCount == CurWorkers(cur_workers, outstanding_stops)

InWork == pc \notin {"idle", "done", "panicked", "aborted"}

Returned == pc = "done" /\ ~stop_processed

\* the step in which the task running work() runs event_loop
EventLoopStep == pc = "event" /\ pc' # "event"

\* ------------------------------------------------------------------- C1
\* C1: the items handed to workers are, in spawn order, exactly the first
\* pushed items (each once, in push order), and the queue holds the rest.
C1_StartedFifoOnce ==
    /\ Len(workers) <= Len(pushed)
    /\ \A i \in 1..Len(workers) : workers[i].item = pushed[i].id
    /\ \A i, j \in 1..Len(workers) : workers[i].item = workers[j].item => i = j
    /\ queue = SubSeq(pushed, Len(workers) + 1, Len(pushed))

\* two workers were started and an item is still queued
C1_Witness == Len(workers) = 2 /\ Len(queue) = 1

\* ------------------------------------------------------------------- C2
\* C2: when work() returns and no Stop was sent, every result sent on the
\* results channel has been sent on to the output channel.
C2_NoResultLost ==
    [][(pc # "done" /\ pc' = "done" /\ ~stop_sent') => delivered' = arrived']_vars

\* ------------------------------------------------------------------- C3
\* C3: outstanding_stops never exceeds cur_workers (the effective worker
\* count is never negative).
C3_EffectiveNonNegative == outstanding_stops <= cur_workers

\* ------------------------------------------------------------------- C4
\* C4 as claimed: during work() the effective worker count exceeds the target
\* by at most 1.
C4_OvershootAtMostOne ==
    InWork => ~UGt(EffectiveCount, num_workers + 1)

\* C4 as amended: a step that starts a worker leaves the effective worker
\* count at most the target.
C4_StartKeepsWithinTarget ==
    [][Len(workers') > Len(workers) =>
         /\ cur_workers' = cur_workers + 1
         /\ ~UGt(CurWorkers(cur_workers', outstanding_stops'), num_workers')]_vars

\* a worker was just started and the effective count has reached a target of 2
C4_Witness ==
    /\ pc = "flush"
    /\ Len(workers) = 2
    /\ cur_workers = 2
    /\ outstanding_stops = 0
    /\ num_workers = 2

\* ------------------------------------------------------------------- C5
\* C5: the values sent on the output channel are, in order, a prefix of the
\* values sent on the results channel.
C5_OutputPrefixOfArrival == IsPrefix(delivered, arrived)

\* two results were delivered, the later pushed item's result first
C5_Witness ==
    /\ Len(delivered) >= 2
    /\ delivered[1][1] > delivered[2][1]

\* ------------------------------------------------------------------- C6
\* C6: once work() runs and no Stop is sent, the queue eventually is empty.
C6_QueueEventuallyEmpty == (pc # "idle") ~> (queue = <<>> \/ stop_sent)

\* ------------------------------------------------------------------- C7
\* C7: once work() runs and no Stop is sent, work() eventually returns.
C7_WorkReturns == (pc # "idle") ~> (pc = "done" \/ stop_sent)

\* ------------------------------------------------------------------- C8
\* C8: when work() has returned without processing a Stop, the effective
\* worker count is zero, no worker is running and the queue is empty.
C8_ReturnedIdle ==
    Returned =>
        /\ EffectiveCount = 0
        /\ \A i \in 1..Len(workers) : ~workers[i].running
        /\ queue = <<>>

\* ------------------------------------------------------------------- C9
\* the commands in front of the first Stop of a command sequence, and those
\* behind it
FirstStop(cmds) == CHOOSE i \in 1..Len(cmds) :
                       cmds[i] = Stop /\ \A j \in 1..(i - 1) : cmds[j] # Stop
HasStop(cmds) == \E i \in 1..Len(cmds) : cmds[i] = Stop
BeforeStop(cmds) == IF HasStop(cmds) THEN SubSeq(cmds, 1, FirstStop(cmds) - 1) ELSE cmds
BehindStop(cmds) == SubSeq(cmds, FirstStop(cmds) + 1, Len(cmds))

\* the count of the last command of a sequence of SetWorkerCount commands,
\* each 0 read as 1
LastCount(cmds, target) ==
    IF cmds = <<>> THEN target
    ELSE IF cmds[Len(cmds)].n = 0 THEN 1 ELSE cmds[Len(cmds)].n

\* C9: the event loop that reads a Stop ends work() in that step: it applies
\* only the commands in front of the Stop, leaves those behind it queued,
\* starts no worker, sends no close signal, leaves the queue and the workers
\* as they are; after it the pool starts and signals nothing any more.
C9_StopExitsAtOnce ==
    /\ [][(EventLoopStep /\ HasStop(command_events)) =>
            /\ pc' = "done"
            /\ stop_processed'
            /\ command_events' = BehindStop(command_events)
            /\ num_workers' = LastCount(BeforeStop(command_events), num_workers)
            /\ queue' = queue
            /\ workers' = workers
            /\ close_channel' = close_channel
            /\ close_sent' = close_sent]_vars
    /\ [][stop_processed =>
            /\ pc' = "done"
            /\ queue' = queue
            /\ Len(workers') = Len(workers)
            /\ close_sent' = close_sent
            /\ command_events' = command_events
            /\ num_workers' = num_workers]_vars

\* a Stop was processed with an item still queued, a command still behind it
\* and a worker still running
C9_Witness ==
    /\ stop_processed
    /\ queue # <<>>
    /\ command_events # <<>>
    /\ \E i \in 1..Len(workers) : workers[i].running

\* ------------------------------------------------------------------ C10
\* the commands with every SetWorkerCount(0) replaced by SetWorkerCount(1)
ZeroAsOne(cmds) ==
    [i \in 1..Len(cmds) |->
        IF cmds[i] = SetWorkerCount(0) THEN SetWorkerCount(1) ELSE cmds[i]]

\* the count of the last command of a sequence of SetWorkerCount commands,
\* taken as written
LastCountRaw(cmds, target) ==
    IF cmds = <<>> THEN target ELSE cmds[Len(cmds)].n

\* C10: the event loop leaves the target it would leave had every
\* SetWorkerCount(0) it read been a SetWorkerCount(1), and never leaves a
\* target of 0 when it applied a command.
C10_ZeroIsOne ==
    [][EventLoopStep =>
         /\ num_workers' = LastCountRaw(ZeroAsOne(BeforeStop(command_events)), num_workers)
         /\ (BeforeStop(command_events) # <<>> => num_workers' >= 1)]_vars

\* a SetWorkerCount(0) was applied to a pool built with more than one worker
C10_Witness == zero_applied /\ num_workers = 1 /\ chan_cap >= 2 /\ pc = "balance"

\* ------------------------------------------------------------------ C11
\* the step in which the task running work() runs balance_workers
BalanceStep == pc = "balance" /\ pc' # "balance"

\* every command of a sequence is a SetWorkerCount of the count n (0 read as 1)
AllSetTo(cmds, n) ==
    \A i \in 1..Len(cmds) :
        /\ cmds[i].cmd = "SetWorkerCount"
        /\ (IF cmds[i].n = 0 THEN 1 ELSE cmds[i].n) = n

\* C11: an event loop that reads only SetWorkerCount commands naming the
\* current target leaves the target, the queue and the workers as they are,
\* sends no close signal, and changes cur_workers and outstanding_stops only
\* by the worker events it drains; at the target, balance_workers starts no
\* worker, tells none to stop and changes no count.
C11_SameCountIsNoOp ==
    /\ [][(/\ EventLoopStep
           /\ command_events # <<>>
           /\ AllSetTo(command_events, num_workers)) =>
            /\ pc' = "balance"
            /\ num_workers' = num_workers
            /\ queue' = queue
            /\ workers' = workers
            /\ close_sent' = close_sent
            /\ close_channel' = close_channel
            /\ cur_workers' = cur_workers - Len(worker_events)
            /\ (worker_events = <<>> =>
                   outstanding_stops' = outstanding_stops)]_vars
    /\ [][(BalanceStep /\ EffectiveCount = num_workers) =>
            /\ pc' = "flush"
            /\ num_workers' = num_workers
            /\ cur_workers' = cur_workers
            /\ outstanding_stops' = outstanding_stops
            /\ queue' = queue
            /\ workers' = workers
            /\ close_sent' = close_sent]_vars

\* at the target of 2, with an item still queued, a command naming the target
\* again was applied and balance_workers has run after it
C11_Witness ==
    /\ same_applied
    /\ pc = "flush"
    /\ command_events = <<>>
    /\ num_workers = 2
    /\ EffectiveCount = 2
    /\ queue # <<>>

\* ------------------------------------------------------------------ C16
\* C16: a run of balance_workers either starts exactly one worker (only with
\* the effective count below the target and an item queued), or counts
\* exactly one more outstanding stop and goes on to send its one close signal
\* (only with the effective count above the target), or changes nothing;
\* a close signal is sent only for such a stop, one per tick, and no other
\* step starts a worker or counts a stop.
C16_OneScalingActionPerTick ==
    /\ [][BalanceStep =>
            \/ /\ Len(workers') = Len(workers) + 1
               /\ cur_workers' = cur_workers + 1
               /\ queue # <<>>
               /\ queue' = Tail(queue)
               /\ ULt(cur_workers - outstanding_stops, num_workers)
               /\ outstanding_stops' = outstanding_stops
               /\ close_sent' = close_sent
               /\ pc' # "stop_send"
            \/ /\ outstanding_stops' = outstanding_stops + 1
               /\ pc' = "stop_send"
               /\ UGt(cur_workers - outstanding_stops, num_workers)
               /\ workers' = workers
               /\ cur_workers' = cur_workers
               /\ queue' = queue
               /\ close_sent' = close_sent
            \/ /\ workers' = workers
               /\ cur_workers' = cur_workers
               /\ outstanding_stops' = outstanding_stops
               /\ queue' = queue
               /\ close_sent' = close_sent
               /\ pc' # "stop_send"]_vars
    /\ [][close_sent' # close_sent =>
            /\ pc = "stop_send"
            /\ pc' \in {"flush", "done"}
            /\ close_sent' = close_sent + 1
            /\ close_channel' = close_channel + 1
            /\ outstanding_stops' = outstanding_stops
            /\ workers' = workers]_vars
    /\ [][(Len(workers') # Len(workers) \/ outstanding_stops' > outstanding_stops)
            => BalanceStep]_vars

\* a tick that sent a close signal has ended, after ticks that started workers
C16_Witness ==
    /\ pc = "flush"
    /\ close_sent = 1
    /\ outstanding_stops = 1
    /\ Len(workers) = 2

\* ------------------------------------------------------------------ C17
\* the workers whose job has returned
Finished == {i \in 1..Len(workers) : ~workers[i].running}

\* the events the event loop has taken off the channel so far
EventsProcessed == Cardinality(Finished) - Len(worker_events)

\* C17: a worker whose job returns emits exactly one event (WorkerStopped when
\* it took a close signal, WorkerDone otherwise); the event loop takes one off
\* cur_workers per event and one off outstanding_stops per WorkerStopped only,
\* and nothing else lowers either count; so cur_workers is the number of
\* workers started minus the number of events processed.
C17_OneEventOneDecrement ==
    /\ [](cur_workers = Len(workers) - EventsProcessed)
    /\ [][\A i \in 1..Len(workers) :
            (workers[i].running /\ ~workers'[i].running) =>
                /\ Len(worker_events') = Len(worker_events) + 1
                /\ SubSeq(worker_events', 1, Len(worker_events)) = worker_events
                /\ worker_events'[Len(worker_events')] =
                       (IF close_channel' < close_channel
                        THEN WorkerStopped ELSE WorkerDone)]_vars
    /\ [][Len(worker_events') > Len(worker_events) =>
            /\ Len(worker_events') = Len(worker_events) + 1
            /\ \E i \in 1..Len(workers) : workers[i].running /\ ~workers'[i].running]_vars
    /\ [][EventLoopStep =>
            /\ cur_workers' = cur_workers - Len(worker_events)
            /\ outstanding_stops' = outstanding_stops
                   - Cardinality({i \in 1..Len(worker_events) :
                                     worker_events[i] = WorkerStopped})
            /\ worker_events' = <<>>]_vars
    /\ [][(cur_workers' < cur_workers \/ outstanding_stops' < outstanding_stops)
            => EventLoopStep]_vars

\* a WorkerDone and a WorkerStopped event have both been processed
C17_Witness ==
    /\ Len(workers) = 3
    /\ cur_workers = 1
    /\ worker_events = <<>>
    /\ close_sent = 1
    /\ close_channel = 0
    /\ outstanding_stops = 0

\* ------------------------------------------------------------------ C18
\* the workers whose job is still running
RunningWorkers == {i \in 1..Len(workers) : workers[i].running}

\* C18: a job that returns Running ends its worker without any worker event:
\* the step sends nothing and lowers no count, the worker stays counted in
\* cur_workers for good (no WorkerDone or WorkerStopped is ever processed for
\* it), and once the process is aborted the pool takes no further step.
C18_RunningIsFatal ==
    /\ [][aborted' # aborted =>
            /\ worker_events' = worker_events
            /\ cur_workers' = cur_workers
            /\ outstanding_stops' = outstanding_stops
            /\ num_workers' = num_workers]_vars
    /\ [](pc # "aborted" =>
            cur_workers = Cardinality(RunningWorkers) + Len(worker_events)
                              + Cardinality(aborted))
    /\ [](cur_workers >= Len(worker_events) + Cardinality(aborted))
    /\ [][pc = "aborted" =>
            /\ pc' = "aborted"
            /\ cur_workers' = cur_workers
            /\ outstanding_stops' = outstanding_stops
            /\ worker_events' = worker_events
            /\ workers' = workers
            /\ output' = output]_vars

\* a job returned Running, another worker's event was processed afterwards,
\* and the first worker is still counted
C18_Witness ==
    /\ pc = "flush"
    /\ aborted = {1}
    /\ Len(workers) = 2
    /\ RunningWorkers = {}
    /\ worker_events = <<>>
    /\ cur_workers = 1

\* the process was aborted by a job that returned Running
C18_WitnessAbort == pc = "aborted" /\ aborted # {}

\* ------------------------------------------------------------------ C19
\* C19: the results channel and the close channel never hold more messages
\* than the worker count the pool was constructed with, whatever the target
\* becomes; a full results channel only changes by the flush taking its head,
\* so a worker's send waits for that; and while the flush waits on a full
\* output channel the pool processes no event and no command, starts and
\* stops no worker and does not leave the flush.
C19_ChannelsBounded ==
    /\ [](Len(results_channel) <= chan_cap /\ close_channel <= chan_cap)
    /\ [][chan_cap' = chan_cap]_vars
    /\ [][(Len(results_channel) = chan_cap /\ results_channel' # results_channel) =>
            /\ pc = "flush"
            /\ pc' = "flush_send"
            /\ results_channel' = Tail(results_channel)]_vars
    /\ [][(pc = "flush_send" /\ output = OutCap) =>
            /\ pc' = "flush_send"
            /\ held' = held
            /\ num_workers' = num_workers
            /\ cur_workers' = cur_workers
            /\ outstanding_stops' = outstanding_stops
            /\ queue' = queue
            /\ Len(workers') = Len(workers)
            /\ close_sent' = close_sent
            /\ IsPrefix(worker_events, worker_events')
            /\ IsPrefix(command_events, command_events')
            /\ IsPrefix(results_channel, results_channel')]_vars

\* the target was raised above the constructed count, the results channel is
\* full and the flush waits on the full output channel
C19_Witness ==
    /\ pc = "flush_send"
    /\ output = OutCap
    /\ Len(results_channel) = chan_cap
    /\ num_workers > chan_cap

\* ================================================== client/tcp.rs: clobber
\* tcp.rs:78  1e9 as u64: nanoseconds in a second
NanosPerSecond == 1000000000

\* tcp.rs:75  Duration::from_millis: nanoseconds in a millisecond
NanosPerMilli == 1000000

\* bounds of the runs explored
MaxThreads == 2

MaxCpus == 2

MaxConnections == 4

MaxTimeoutMillis == 1

\* a rate that divides 1e9, one that does not, and one above 1e9 (rate is a u32)
ExactRate == 10

TruncatedRate == 9

HugeRate == 2000000000

\* the configured run duration, in ns
RunNanos == 200000000

\* time a connect, write or read takes when the peer answers, in ns
Latency == 100000

\* time a write takes when the peer stops reading, in ns
StallNanos == 5000000

\* requests a slot issues before the exploration leaves it
MaxRequests == 2

Rates == {ExactRate, TruncatedRate, HugeRate}

Configs ==
    [rate : {None} \cup {Some(r) : r \in Rates},
     duration : {None, Some(RunNanos)},
     num_threads : 0..MaxThreads,
     connect_timeout : 0..MaxTimeoutMillis,
     read_timeout : 0..MaxTimeoutMillis,
     connections : 0..MaxConnections]

\* tcp.rs:63  0 => num_cpus::get()
NumThreads(n, cpus) == IF n = 0 THEN cpus ELSE n

\* a faulty ConnsPerThread: the quotient is used as it is
ConnsPerThreadQuotient(connections, threads) == connections \div threads

\* tcp.rs:69  match config.connections / num_threads { 0 => 1, n => n }
ConnsPerThread(connections, threads) ==
    IF connections \div threads = 0 THEN 1 ELSE connections \div threads

\* tcp.rs:75-76  Duration::from_millis
FromMillis(ms) == ms * NanosPerMilli

\* tcp.rs:77  Duration::from_nanos(1e9 as u64 / rate as u64), or zero
Tick(rate) == IF rate.some THEN NanosPerSecond \div rate.v ELSE 0

\* the values clobber resolves from its Config
Threads == NumThreads(config.num_threads, main.cpus)

Conns == ConnsPerThread(config.connections, Threads)

\* tcp.rs:128  tick * conns_per_thread * num_threads
Delay == Tick(config.rate) * Conns * Threads

\* tcp.rs:106  tick * num_threads * i
StaggerDelay(i) == Tick(config.rate) * Threads * i

\* util::sleep(d) started at time t completes at t + d
Sleep(t, d) == t + d

\* tcp.rs:112  Instant::now() >= start + duration, start being time 0
DurationOver(t) == config.duration.some /\ t >= config.duration.v

MinOf(S) == CHOOSE x \in S : \A y \in S : x <= y

\* --------------------------------------------------------------- the slots
\* what the peer does with the requests of a run: where each request fails,
\* or that its response is read
Outcomes ==
    {"connect_timeout", "connect_refused", "write_error", "write_stalled",
     "read_timeout", "read_error", "read_ok"}

\* tcp.rs:158,188  how a request to a peer behaving as p ends: a phase under
\* .timeout(t) completes only if it takes less than t, and a connect or read
\* that completes takes Latency
Outcome(p) ==
    IF Latency >= FromMillis(config.connect_timeout) THEN "connect_timeout"
    ELSE IF p \in {"read_error", "read_ok"}
            /\ Latency >= FromMillis(config.read_timeout) THEN "read_timeout"
    ELSE p

\* tcp.rs:97-107  a future as pool.run() first polls it at time t
NewSlot(i, t) ==
    [st |-> IF config.rate.some THEN "Staggering" ELSE "Checking",
     wake |-> IF config.rate.some THEN Sleep(t, StaggerDelay(i)) ELSE t,
     outcome |-> "none", request_start |-> 0, requests |-> 0,
     first_start |-> 0, gap |-> 0, term |-> 0, failed |-> FALSE]

\* tcp.rs:126-135  the pacing at the end of an iteration that ends at time t
Pace(r, t) ==
    IF config.rate.some /\ t - r.request_start < Delay
    THEN [r EXCEPT !.st = "Pacing",
                   !.wake = Sleep(t, Delay - (t - r.request_start))]
    ELSE [r EXCEPT !.st = "Checking", !.wake = t]

\* a faulty PhaseFailed: the failure ends the slot's loop
PhaseFailedBreaks(r, t) == [r EXCEPT !.st = "Terminated", !.term = t, !.failed = TRUE]

\* tcp.rs:118-124  a phase that fails ends the iteration's request: the
\* if-let is skipped and the pacing follows
PhaseFailed(r, t) == Pace([r EXCEPT !.failed = TRUE], t)

SlotWaiting(s) ==
    slots[s].st \in {"Staggering", "Connecting", "Writing", "Reading", "Pacing"}

SlotReady(s) ==
    \/ SlotWaiting(s) /\ now >= slots[s].wake
    \/ /\ slots[s].st = "Checking"
       /\ DurationOver(now) \/ slots[s].requests < MaxRequests

\* tcp.rs:93,141  the futures of one thread run on its LocalPool, one at a
\* time; of those that can run the one of lowest index is taken first (the
\* steps of different futures touch disjoint state)
Turn(s) == \A i \in 0..(s[2] - 1) : ~SlotReady(<<s[1], i>>)

MainReady ==
    \/ main.pc = "spawn" /\ now >= main.wake
    \/ main.pc = "join" /\ \A s \in DOMAIN slots : slots[s].st = "Terminated"

\* tcp.rs:60  clobber(config, message) is called with some Config, on a host
\* with some number of CPUs, against a peer of some behaviour; tcp.rs:74
\* start = Instant::now()
Clobber ==
    /\ main.pc = "none"
    /\ \E cfg \in Configs : \E cpus \in 1..MaxCpus : \E peer \in Outcomes :
           /\ config' = cfg
           /\ main' = [pc |-> "spawn", spawned |-> 0, wake |-> now,
                       cpus |-> cpus, peer |-> peer]
    /\ UNCHANGED <<now, slots, pool_vars>>

\* tcp.rs:84-147  one iteration of the thread loop: the thread is spawned, its
\* LocalPool spawns the futures and polls them, and clobber sleeps one tick
SpawnThread ==
    /\ main.pc = "spawn"
    /\ main.spawned < Threads
    /\ now >= main.wake
    /\ slots' = [s \in DOMAIN slots \cup ({main.spawned} \X (0..(Conns - 1))) |->
                    IF s \in DOMAIN slots THEN slots[s] ELSE NewSlot(s[2], now)]
    /\ main' = [main EXCEPT !.spawned = @ + 1,
                            !.wake = Sleep(now, Tick(config.rate))]
    /\ UNCHANGED <<config, now, pool_vars>>

\* tcp.rs:148-150  the thread loop ends after the last sleep
StartJoin ==
    /\ main.pc = "spawn"
    /\ main.spawned = Threads
    /\ now >= main.wake
    /\ main' = [main EXCEPT !.pc = "join"]
    /\ UNCHANGED <<config, now, slots, pool_vars>>

\* tcp.rs:150-154  every thread is joined (its pool.run() returns when all its
\* futures have completed) and clobber returns Ok(())
Join ==
    /\ main.pc = "join"
    /\ \A s \in DOMAIN slots : slots[s].st = "Terminated"
    /\ main' = [main EXCEPT !.pc = "returned"]
    /\ UNCHANGED <<config, now, slots, pool_vars>>

\* tcp.rs:106  the stagger sleep completes
StaggerDone(s) ==
    /\ s \in DOMAIN slots
    /\ slots[s].st = "Staggering"
    /\ now >= slots[s].wake
    /\ Turn(s)
    /\ slots' = [slots EXCEPT ![s].st = "Checking"]
    /\ UNCHANGED <<config, now, main, pool_vars>>

\* tcp.rs:111-115  the duration check breaks the loop
Terminate(s) ==
    /\ s \in DOMAIN slots
    /\ slots[s].st = "Checking"
    /\ DurationOver(now)
    /\ Turn(s)
    /\ slots' = [slots EXCEPT ![s].st = "Terminated", ![s].term = now]
    /\ UNCHANGED <<config, now, main, pool_vars>>

\* tcp.rs:111-119  the duration check passes, request_start is taken and the
\* connect begins
StartRequest(s) ==
    /\ s \in DOMAIN slots
    /\ slots[s].st = "Checking"
    /\ ~DurationOver(now)
    /\ slots[s].requests < MaxRequests
    /\ Turn(s)
    /\ slots' = [slots EXCEPT
           ![s].st = "Connecting",
           ![s].outcome = Outcome(main.peer),
           ![s].wake = IF Outcome(main.peer) = "connect_timeout"
                       THEN now + FromMillis(config.connect_timeout)
                       ELSE now + Latency,
           ![s].request_start = now,
           ![s].requests = @ + 1,
           ![s].first_start = IF slots[s].requests = 0 THEN now ELSE @,
           ![s].gap = IF slots[s].requests = 0 THEN 0
                      ELSE IF slots[s].requests = 1 THEN now - slots[s].request_start
                      ELSE MinOf({@, now - slots[s].request_start})]
    /\ UNCHANGED <<config, now, main, pool_vars>>

\* tcp.rs:118-121  connect_with_timeout resolves: the write begins, or the
\* iteration goes to its pacing
ConnectDone(s) ==
    /\ s \in DOMAIN slots
    /\ slots[s].st = "Connecting"
    /\ now >= slots[s].wake
    /\ Turn(s)
    /\ LET r == slots[s]
       IN slots' = [slots EXCEPT ![s] =
              IF r.outcome \in {"connect_timeout", "connect_refused"}
              THEN PhaseFailed(r, now)
              ELSE [r EXCEPT !.st = "Writing",
                             !.wake = IF r.outcome = "write_stalled"
                                      THEN now + StallNanos ELSE now + Latency]]
    /\ UNCHANGED <<config, now, main, pool_vars>>

\* tcp.rs:121-122  write resolves (it has no timeout): the read begins, or the
\* iteration goes to its pacing
WriteDone(s) ==
    /\ s \in DOMAIN slots
    /\ slots[s].st = "Writing"
    /\ now >= slots[s].wake
    /\ Turn(s)
    /\ LET r == slots[s]
       IN slots' = [slots EXCEPT ![s] =
              IF r.outcome \in {"write_error", "write_stalled"}
              THEN PhaseFailed(r, now)
              ELSE [r EXCEPT !.st = "Reading",
                             !.wake = IF r.outcome = "read_timeout"
                                      THEN now + FromMillis(config.read_timeout)
                                      ELSE now + Latency]]
    /\ UNCHANGED <<config, now, main, pool_vars>>

\* tcp.rs:122-135  read_with_timeout resolves, its result is dropped by .ok()
\* and the pacing follows
ReadDone(s) ==
    /\ s \in DOMAIN slots
    /\ slots[s].st = "Reading"
    /\ now >= slots[s].wake
    /\ Turn(s)
    /\ LET r == slots[s]
       IN slots' = [slots EXCEPT ![s] =
              IF r.outcome = "read_ok" THEN Pace(r, now) ELSE PhaseFailed(r, now)]
    /\ UNCHANGED <<config, now, main, pool_vars>>

\* tcp.rs:131  the pacing sleep completes and the loop starts over
PacingDone(s) ==
    /\ s \in DOMAIN slots
    /\ slots[s].st = "Pacing"
    /\ now >= slots[s].wake
    /\ Turn(s)
    /\ slots' = [slots EXCEPT ![s].st = "Checking"]
    /\ UNCHANGED <<config, now, main, pool_vars>>

\* -------------------------------------------------------------------- time
Wakes ==
    {slots[s].wake : s \in {x \in DOMAIN slots : SlotWaiting(x)}}
        \cup (IF main.pc = "spawn" THEN {main.wake} ELSE {})

\* nothing can run at the present instant: the clock moves on to the next
\* timer or completion
AdvanceTime ==
    /\ main.pc \in {"spawn", "join"}
    /\ ~MainReady
    /\ \A s \in DOMAIN slots : ~SlotReady(s)
    /\ Wakes # {}
    /\ now' = MinOf(Wakes)
    /\ UNCHANGED <<config, main, slots, pool_vars>>

Pairs == (0..MaxThreads) \X (0..MaxConnections)

TcpNext ==
    \/ Clobber
    \/ SpawnThread
    \/ StartJoin
    \/ Join
    \/ \E s \in Pairs : StaggerDone(s)
    \/ \E s \in Pairs : Terminate(s)
    \/ \E s \in Pairs : StartRequest(s)
    \/ \E s \in Pairs : ConnectDone(s)
    \/ \E s \in Pairs : WriteDone(s)
    \/ \E s \in Pairs : ReadDone(s)
    \/ \E s \in Pairs : PacingDone(s)
    \/ AdvanceTime

\* the pool takes no part in a run of clobber
TcpInit == Init /\ num_workers = 1

TcpSpec == TcpInit /\ [][TcpNext]_vars


\* ------------------------------------------------------------------ C12
\* C12: with a duration D configured, every slot that has terminated did so
\* no later than D plus the connect and the read timeout.
C12_TerminatesWithinBound ==
    \A s \in DOMAIN slots :
        slots[s].st = "Terminated" =>
            slots[s].term <= config.duration.v
                                 + FromMillis(config.connect_timeout)
                                 + FromMillis(config.read_timeout)

\* ------------------------------------------------------------------ C13
\* C13: with a rate R configured, consecutive request starts of a slot are at
\* least delay = tick*K*T apart, and K*T requests per delay is a rate of at
\* most R, that is tick * R >= 1e9.
C13_RateNeverExceeded ==
    config.rate.some =>
        \A s \in DOMAIN slots :
            slots[s].requests >= 2 =>
                /\ slots[s].gap >= Delay
                /\ Tick(config.rate) * config.rate.v >= NanosPerSecond

\* ------------------------------------------------------------------ C14
\* a phase of a slot's request that fails
FailsIn(r) ==
    \/ r.st = "Connecting" /\ r.outcome \in {"connect_timeout", "connect_refused"}
    \/ r.st = "Writing" /\ r.outcome \in {"write_error", "write_stalled"}
    \/ r.st = "Reading" /\ r.outcome \in {"read_timeout", "read_error"}

\* C14: a slot becomes Terminated only from the duration check, with the
\* duration over; a connect, write or read that fails leaves the slot in its
\* pacing or back at the top of its loop, never Terminated, and leaves clobber
\* where it was; without a duration no slot is ever Terminated.
C14_TerminatedOnlyByDurationCheck ==
    /\ [][\A s \in DOMAIN slots :
            (slots[s].st # "Terminated" /\ slots'[s].st = "Terminated") =>
                /\ slots[s].st = "Checking"
                /\ config.duration.some
                /\ now >= config.duration.v]_vars
    /\ [][\A s \in DOMAIN slots :
            (FailsIn(slots[s]) /\ slots'[s] # slots[s]) =>
                /\ slots'[s].st \in {"Pacing", "Checking"}
                /\ slots'[s].requests = slots[s].requests
                /\ main' = main]_vars
    /\ [](~config.duration.some =>
            \A s \in DOMAIN slots : slots[s].st # "Terminated")
    /\ [](main.pc = "returned" =>
            \A s \in DOMAIN slots : slots[s].st = "Terminated")

\* a slot whose request failed has started its next request
C14_Witness ==
    \E s \in DOMAIN slots :
        /\ slots[s].failed
        /\ slots[s].requests = 2
        /\ slots[s].st = "Connecting"
        /\ config.duration.some

C20_FirstStartsSpread ==
    config.rate.some =>
        \A s \in DOMAIN slots : \A u \in DOMAIN slots :
            (slots[s].requests >= 1 /\ slots[u].requests >= 1) =>
                /\ slots[s].first_start =
                       (s[1] + Threads * s[2]) * Tick(config.rate)
                /\ (s # u => slots[s].first_start # slots[u].first_start)


\* ------------------------------------------------------------------ C21
\* C21: while the target stays the n >= 1 given at construction, at most n
\* workers run at the same time, no close signal is sent and
\* outstanding_stops stays 0, however many items are pushed and in whatever
\* order the workers complete.
C21_FixedTargetNeverStops ==
    ~count_sent =>
        /\ num_workers = chan_cap
        /\ num_workers >= 1
        /\ Cardinality(RunningWorkers) <= num_workers
        /\ cur_workers <= num_workers
        /\ outstanding_stops = 0
        /\ close_sent = 0
        /\ close_channel = 0
        /\ pc # "stop_send"

\* with a target of 2, a third worker runs beside one of the first two after
\* the other has completed
C21_Witness ==
    /\ ~count_sent
    /\ num_workers = 2
    /\ Len(workers) = 3
    /\ Cardinality(RunningWorkers) = 2
    /\ workers[3].running


\* ------------------------------------------------------------------ C22
\* C22: a worker stopped by a close signal was already running when that
\* signal was sent: no worker is stopped by a signal sent before it was started.
C22_NoStaleStop == \A i \in 1..Len(workers) : ~workers[i].stale


\* ------------------------------------------------------------------ C23
\* C23: once a Stop has been sent on the command channel, and with the
\* consumer of the output channel receiving, work() comes to its end (it
\* returns, or at least its task ends), whatever the workers do.
C23_StopEndsWork == stop_sent ~> (pc \in {"done", "panicked"})

====
